---- MODULE Spec2Model ----
(***************************************************************************)
(* Model of the uiauth package (FastAPI-UI-Auth): credential verification, *)
(* the per-host failure counter, the session store, the session guard on   *)
(* the protected routes, logout and the timer that clears a session.       *)
(*                                                                         *)
(* Values.  A Python string is a sequence of symbols: a session token is   *)
(* the one-symbol string <<n>> (the n-th value drawn from                  *)
(* secrets.token_urlsafe, all distinct), "" is <<>>.  Paths and endpoint   *)
(* names are TLA+ strings.  An optional value (dict.get, a missing header) *)
(* is a set: {} is None, {v} is the value v.                               *)
(***************************************************************************)
EXTENDS Integers, Sequences, FiniteSets, TLC

VARIABLES
    invalid,      \* models.ws_session.invalid: host -> failed attempts (partial)
    client_auth,  \* models.ws_session.client_auth: host -> token (partial)
    routes,       \* app.routes, in registration order
    timers,       \* started threading.Timer objects that have not fired yet
    nextKey,      \* how many tokens secrets.token_urlsafe has produced
    fired,        \* history: tokens whose own timer has fired
    streak,       \* history: failed verifications per host since its last success
    last,         \* history: the last operation and its response
    browser,      \* the browser of each host: its cookies (BrowserSpec)
    inflight,     \* calls that are between two of their steps
    called        \* a function called on its own: its arguments and what it gave

vars == <<invalid, client_auth, routes, timers, nextKey, fired, streak, last,
          browser, inflight, called>>

----------------------------------------------------------------------------
(* Bounds *)

MaxKeys == 2      \* successful logins explored
MaxInvalid == 3   \* failed attempts counted per host
MaxThreads == 2   \* requests served at once

Hosts == {"10.0.0.1", "10.0.0.2"}

\* FastAPIUIAuth(timeout=300): the session timeout, in seconds
timeout == 300

----------------------------------------------------------------------------
(* uiauth/enums.py *)

fastapi_error == "/fastapi-error"
fastapi_login == "/fastapi-login"
fastapi_logout == "/fastapi-logout"
fastapi_session == "/fastapi-session"
fastapi_verify_login == "/fastapi-verify-login"

(* Optional values *)
None == {}
Some(v) == {v}
Val(opt) == CHOOSE v \in opt : TRUE
\* Python truthiness of an optional string (a sequence of symbols)
Truthy(opt) == opt # None /\ opt # Some(<<>>)
\* Python truthiness of an optional path
TruthyPath(opt) == opt # None /\ opt # Some("")

\* dict.get(key)
Get(d, k) == IF k \in DOMAIN d THEN Some(d[k]) ELSE None
\* d[key] = value
Put(d, k, v) == [x \in (DOMAIN d) \cup {k} |-> IF x = k THEN v ELSE d[x]]
\* d.pop(key)
Pop(d, k) == [x \in (DOMAIN d) \ {k} |-> d[x]]

\* secrets.compare_digest
compare_digest(a, b) == a = b

\* secrets.token_urlsafe(64): the (n+1)-th draw
token_urlsafe(n) == <<n + 1>>

----------------------------------------------------------------------------
(* Strings of the credential: symbols are records of one shape.            *)

Sym(k, a, n, m) == [k |-> k, a |-> a, n |-> n, m |-> m]
Comma == Sym(",", "", 0, <<>>)
\* the comma-free text w, as one symbol
Word(w) == <<Sym("w", w, 0, <<>>)>>
\* the decimal digits of n, as one symbol
Digits(n) == <<Sym("d", "", n, <<>>)>>

\* secure.hex_encode: symbol by symbol, the hex digits of each
hex_encode(s) == [i \in 1..Len(s) |-> Sym("x", s[i].a, s[i].n, <<>>)]
\* secure.calculate_hash: a one-way digest, one symbol per message
calculate_hash(message) == <<Sym("h", "", 0, message)>>

\* str.split(","): the fields between the commas, at least one
RECURSIVE split(_)
split(text) ==
    IF \A i \in 1..Len(text) : text[i] # Comma
    THEN <<text>>
    ELSE LET i == CHOOSE j \in 1..Len(text) :
                      text[j] = Comma /\ \A k \in 1..(j - 1) : text[k] # Comma
         IN <<SubSeq(text, 1, i - 1)>> \o split(SubSeq(text, i + 1, Len(text)))

\* models.env, as FastAPIUIAuth.__init__ sets it
env_username == Word("admin")
env_password == Word("hunter2")

(* Exceptions, one record shape *)
NoExc == [type |-> "", status_code |-> 0, destination |-> "", source |-> "", detail |-> ""]
HTTPException(code, detail) ==
    [type |-> "HTTPException", status_code |-> code, destination |-> "", source |-> "",
     detail |-> detail]
\* models.RedirectException(destination, source="/", detail="")
RedirectException(destination, source, detail) ==
    [type |-> "RedirectException", status_code |-> 0, destination |-> destination,
     source |-> source, detail |-> detail]
\* an exception no handler of the package catches
Uncaught(type) ==
    [type |-> type, status_code |-> 0, destination |-> "", source |-> "", detail |-> ""]

\* secure.base64_decode: fails on text that is not base64
base64_decode(credentials) ==
    IF credentials.b64 THEN [exc |-> NoExc, value |-> [hex |-> credentials.hex, text |-> credentials.text]]
    ELSE [exc |-> Uncaught("MalformedCredential"), value |-> [hex |-> FALSE, text |-> <<>>]]
\* secure.hex_decode: fails on text that is not hex
hex_decode(decoded_auth) ==
    IF decoded_auth.hex THEN [exc |-> NoExc, value |-> decoded_auth.text]
    ELSE [exc |-> Uncaught("MalformedCredential"), value |-> <<>>]

(* str methods, on the texts the model draws *)
\* the reasons a RedirectException may carry in detail, "" when it has none
Details == {"", "Session expired", "LOCKED OUT", "denied 3 times"}
\* str.upper on the reasons and on the names of environment variables
upper(text) ==
    CASE text = "Session expired" -> "SESSION EXPIRED"
      [] text = "denied 3 times" -> "DENIED 3 TIMES"
      [] text \in {"username", "Username"} -> "USERNAME"
      [] text \in {"password", "Password"} -> "PASSWORD"
      [] text = "user" -> "USER"
      [] text = "pass" -> "PASS"
      [] OTHER -> text
\* str.lower on the names of environment variables
lower(text) ==
    CASE text \in {"USERNAME", "Username"} -> "username"
      [] text \in {"PASSWORD", "Password"} -> "password"
      [] text = "USER" -> "user"
      [] text = "PASS" -> "pass"
      [] OTHER -> text
\* field_name[:4]
first4(field_name) ==
    CASE field_name = "username" -> "user"
      [] field_name = "password" -> "pass"
      [] OTHER -> field_name

----------------------------------------------------------------------------
(* uiauth/models.py: the configured credentials.  A str or None is an       *)
(* optional TLA+ string here; environ is os.environ, a dict.                *)

\* bool(value) of a str or None
TruthyText(opt) == opt # None /\ opt # Some("")

\* get_env looking each key up as given only
RECURSIVE get_env_as_given(_, _, _)
get_env_as_given(environ, keys, default) ==
    IF keys = <<>> THEN default
    ELSE IF TruthyText(Get(environ, Head(keys))) THEN Get(environ, Head(keys))
    ELSE get_env_as_given(environ, Tail(keys), default)

\* get_env(keys, default) under the environment environ
RECURSIVE get_env(_, _, _)
get_env(environ, keys, default) ==
    IF keys = <<>> THEN default
    ELSE LET key == Head(keys) IN
         IF TruthyText(Get(environ, key)) THEN Get(environ, key)
         ELSE IF TruthyText(Get(environ, upper(key))) THEN Get(environ, upper(key))
         ELSE IF TruthyText(Get(environ, lower(key))) THEN Get(environ, lower(key))
         ELSE get_env(environ, Tail(keys), default)

\* EnvConfig.load_user, the validator that runs before the fields are
\* validated: what it returns is the value validated, and it returns nothing
\* (None) when key is truthy
load_user(key, field_name, environ) ==
    IF ~TruthyText(key)
    THEN get_env(environ, <<field_name, first4(field_name)>>, None)
    ELSE None

\* EnvConfig(username=username, password=password): both fields are str, a
\* None fails the validation
EnvConfig(username, password, environ) ==
    LET u == load_user(username, "username", environ)
        p == load_user(password, "password", environ)
    IN IF u = None \/ p = None
       THEN [exc |-> Uncaught("ValidationError"), username |-> "", password |-> ""]
       ELSE [exc |-> NoExc, username |-> Val(u), password |-> Val(p)]

----------------------------------------------------------------------------
(* uiauth/utils.py.  A function that touches the shared dicts is given     *)
(* them and returns them: inv is ws_session.invalid, auth is               *)
(* ws_session.client_auth.  exc is the exception it raises, NoExc if none. *)

\* failed_auth_counter redirecting only past the third failure
failed_auth_counter_past_three(inv, host) ==
    LET counted == IF host \in DOMAIN inv
                   THEN [inv EXCEPT ![host] = @ + 1]
                   ELSE Put(inv, host, 1)
    IN [invalid |-> counted,
        exc |-> IF counted[host] > 3
                THEN RedirectException(fastapi_error, "/", "")
                ELSE NoExc]

failed_auth_counter(inv, host) ==
    LET counted == IF host \in DOMAIN inv
                   THEN [inv EXCEPT ![host] = @ + 1]
                   ELSE Put(inv, host, 1)
    IN [invalid |-> counted,
        exc |-> IF counted[host] >= 3
                THEN RedirectException(fastapi_error, "/", "")
                ELSE NoExc]

raise_error(inv, host) ==
    LET counter == failed_auth_counter(inv, host)
    IN [invalid |-> counter.invalid,
        exc |-> IF counter.exc # NoExc
                THEN counter.exc
                ELSE HTTPException(401, "Incorrect username or password")]

extract_credentials(authorization) ==
    LET decoded_auth == base64_decode(authorization)
        auth == hex_decode(decoded_auth.value)
    IN IF decoded_auth.exc # NoExc THEN [exc |-> decoded_auth.exc, fields |-> <<>>]
       ELSE IF auth.exc # NoExc THEN [exc |-> auth.exc, fields |-> <<>>]
       ELSE [exc |-> NoExc, fields |-> split(auth.value)]

\* the result of verify_login when it raises exc
Raised(exc, inv, auth) ==
    [exc |-> exc, key |-> None, invalid |-> inv, client_auth |-> auth]

\* verify_login leaving ws_session.invalid alone on success
verify_login_no_reset(authorization, host, inv, auth, n) ==
    IF authorization = None
    THEN LET e == raise_error(inv, host) IN Raised(e.exc, e.invalid, auth)
    ELSE
    LET extracted == extract_credentials(Val(authorization)) IN
    IF extracted.exc # NoExc THEN Raised(extracted.exc, inv, auth)
    ELSE IF Len(extracted.fields) # 3 THEN Raised(Uncaught("ValueError"), inv, auth)
    ELSE
    LET username == extracted.fields[1]
        signature == extracted.fields[2]
        timestamp == extracted.fields[3]
    IN
    IF ~compare_digest(username, env_username)
    THEN LET e == raise_error(inv, host) IN Raised(e.exc, e.invalid, auth)
    ELSE
    LET message == hex_encode(env_username) \o hex_encode(env_password) \o timestamp
        key == token_urlsafe(n)
    IN
    IF compare_digest(signature, calculate_hash(message))
    THEN [exc |-> NoExc, key |-> Some(key),
          invalid |-> inv,
          client_auth |-> Put(auth, host, key)]
    ELSE LET e == raise_error(inv, host) IN Raised(e.exc, e.invalid, auth)

\* verify_login refusing a host that has three or more failures
verify_login_locked(authorization, host, inv, auth, n) ==
    LET login == verify_login_no_reset(authorization, host, inv, auth, n) IN
    IF login.exc # NoExc THEN login
    ELSE IF host \in DOMAIN inv /\ inv[host] >= 3
    THEN LET e == raise_error(inv, host) IN Raised(e.exc, e.invalid, auth)
    ELSE [login EXCEPT !.invalid = Put(inv, host, 0)]

\* verify_login keeping the token a host already has (dict.setdefault)
verify_login_setdefault(authorization, host, inv, auth, n) ==
    LET login == verify_login_no_reset(authorization, host, inv, auth, n) IN
    IF login.exc # NoExc THEN login
    ELSE [login EXCEPT !.invalid = Put(inv, host, 0),
                       !.client_auth = IF host \in DOMAIN auth THEN auth
                                       ELSE Put(auth, host, Val(login.key))]

\* verify_login resetting the failures of every host (dict.clear)
verify_login_reset_all(authorization, host, inv, auth, n) ==
    LET login == verify_login_no_reset(authorization, host, inv, auth, n) IN
    IF login.exc # NoExc THEN login
    ELSE [login EXCEPT !.invalid = [h \in DOMAIN inv \cup {host} |-> 0]]

\* verify_login turning a wrong username away without counting it
verify_login_user_uncounted(authorization, host, inv, auth, n) ==
    LET login == verify_login_no_reset(authorization, host, inv, auth, n)
        extracted == extract_credentials(Val(authorization))
    IN
    IF login.exc = NoExc THEN [login EXCEPT !.invalid = Put(inv, host, 0)]
    ELSE IF /\ authorization # None /\ extracted.exc = NoExc
            /\ Len(extracted.fields) = 3
            /\ ~compare_digest(extracted.fields[1], env_username)
    THEN Raised(HTTPException(401, "Incorrect username or password"), inv, auth)
    ELSE login

\* verify_login dropping the session of the host when it fails
verify_login_failure_clears(authorization, host, inv, auth, n) ==
    LET login == verify_login_no_reset(authorization, host, inv, auth, n) IN
    IF login.exc = NoExc THEN [login EXCEPT !.invalid = Put(inv, host, 0)]
    ELSE [login EXCEPT !.client_auth = Pop(auth, host)]

\* verify_login accepting a credential once (refusing it when replayed)
verify_login_once(authorization, host, inv, auth, n) ==
    LET login == verify_login_no_reset(authorization, host, inv, auth, n) IN
    IF login.exc # NoExc THEN login
    ELSE IF n >= 1
    THEN LET e == raise_error(inv, host) IN Raised(e.exc, e.invalid, auth)
    ELSE [login EXCEPT !.invalid = Put(inv, host, 0)]

\* authorization: None or Some(credentials); n: tokens drawn so far
verify_login(authorization, host, inv, auth, n) ==
    IF authorization = None
    THEN LET e == raise_error(inv, host) IN Raised(e.exc, e.invalid, auth)
    ELSE
    LET extracted == extract_credentials(Val(authorization)) IN
    IF extracted.exc # NoExc THEN Raised(extracted.exc, inv, auth)
    ELSE IF Len(extracted.fields) # 3 THEN Raised(Uncaught("ValueError"), inv, auth)
    ELSE
    LET username == extracted.fields[1]
        signature == extracted.fields[2]
        timestamp == extracted.fields[3]
    IN
    IF ~compare_digest(username, env_username)
    THEN LET e == raise_error(inv, host) IN Raised(e.exc, e.invalid, auth)
    ELSE
    LET hex_user == hex_encode(env_username)
        hex_pass == hex_encode(env_password)
        message == hex_user \o hex_pass \o timestamp
        expected_signature == calculate_hash(message)
        key == token_urlsafe(n)
    IN
    IF compare_digest(signature, expected_signature)
    THEN [exc |-> NoExc, key |-> Some(key),
          invalid |-> Put(inv, host, 0),
          client_auth |-> Put(auth, host, key)]
    ELSE LET e == raise_error(inv, host) IN Raised(e.exc, e.invalid, auth)

\* verify_session looking the presented token up among the tokens of all hosts
verify_session_any_host(api_request, api_websocket, auth) ==
    IF api_request = None /\ api_websocket = None
    THEN HTTPException(400, "Request or WebSocket connection is required for session check.")
    ELSE
    LET request == IF api_request # None THEN Val(api_request) ELSE Val(api_websocket)
        session_token == Get(request.cookies, "session_token")
    IN
    IF Truthy(session_token) /\ \E h \in DOMAIN auth : compare_digest(Val(session_token), auth[h])
    THEN NoExc
    ELSE IF ~Truthy(session_token)
    THEN RedirectException(fastapi_login, request.path, "")
    ELSE RedirectException(fastapi_session, request.path, "")

\* verify_session letting a call with neither a Request nor a WebSocket through
verify_session_without_transport(api_request, api_websocket, auth) ==
    IF api_request = None /\ api_websocket = None
    THEN NoExc
    ELSE
    LET request == IF api_request # None THEN Val(api_request) ELSE Val(api_websocket)
        session_token == Get(request.cookies, "session_token")
        stored_token == Get(auth, request.host)
    IN
    IF Truthy(stored_token) /\ Truthy(session_token)
       /\ compare_digest(Val(session_token), Val(stored_token))
    THEN NoExc
    ELSE IF ~Truthy(session_token)
    THEN RedirectException(fastapi_login, request.path, "")
    ELSE RedirectException(fastapi_session, request.path, "")

\* verify_session asking for a login only when the cookie is missing
verify_session_missing_only(api_request, api_websocket, auth) ==
    IF api_request = None /\ api_websocket = None
    THEN HTTPException(400, "Request or WebSocket connection is required for session check.")
    ELSE
    LET request == IF api_request # None THEN Val(api_request) ELSE Val(api_websocket)
        session_token == Get(request.cookies, "session_token")
        stored_token == Get(auth, request.host)
    IN
    IF Truthy(stored_token) /\ Truthy(session_token)
       /\ compare_digest(Val(session_token), Val(stored_token))
    THEN NoExc
    ELSE IF session_token = None
    THEN RedirectException(fastapi_login, request.path, "")
    ELSE RedirectException(fastapi_session, request.path, "")

\* api_request, api_websocket: None or Some(connection); a connection is
\* [host, path, cookies], cookies a dict
verify_session(api_request, api_websocket, auth) ==
    IF api_request = None /\ api_websocket = None
    THEN HTTPException(400, "Request or WebSocket connection is required for session check.")
    ELSE
    LET request == IF api_request # None THEN Val(api_request) ELSE Val(api_websocket)
        session_token == Get(request.cookies, "session_token")
        stored_token == Get(auth, request.host)
    IN
    IF Truthy(stored_token) /\ Truthy(session_token)
       /\ compare_digest(Val(session_token), Val(stored_token))
    THEN NoExc
    ELSE IF ~Truthy(session_token)
    THEN RedirectException(fastapi_login, request.path, "")
    ELSE RedirectException(fastapi_session, request.path, "")

\* clear_session that only logs
clear_session_log_only(host, auth) == auth

clear_session(host, auth) ==
    IF Truthy(Get(auth, host)) THEN Pop(auth, host) ELSE auth

\* redirect_exception_handler answering every path with a redirect
redirect_exception_handler_redirect_only(path, exception) ==
    [media |-> "RedirectResponse",
     status |-> 307,
     dest |-> exception.destination,
     detail |-> IF exception.detail # "" THEN Some(upper(exception.detail)) ELSE None,
     requested_by |-> exception.source]

\* redirect_exception_handler setting the detail cookie as it was given
redirect_exception_handler_detail_as_given(path, exception) ==
    [media |-> IF path = fastapi_verify_login THEN "JSONResponse" ELSE "RedirectResponse",
     status |-> IF path = fastapi_verify_login THEN 200 ELSE 307,
     dest |-> exception.destination,
     detail |-> IF exception.detail # "" THEN Some(exception.detail) ELSE None,
     requested_by |-> exception.source]

\* the response built from a RedirectException raised while serving path:
\* dest is the redirect_url of the JSON body or the Location of the redirect,
\* detail the value of the detail cookie it sets (None when it sets none),
\* requested_by the value of the X-Requested-By cookie it sets
redirect_exception_handler(path, exception) ==
    [media |-> IF path = fastapi_verify_login THEN "JSONResponse" ELSE "RedirectResponse",
     status |-> IF path = fastapi_verify_login THEN 200 ELSE 307,
     dest |-> exception.destination,
     detail |-> IF exception.detail # "" THEN Some(upper(exception.detail)) ELSE None,
     requested_by |-> exception.source]

----------------------------------------------------------------------------
(* uiauth/endpoints.py: the pages.  A response is the template rendered,    *)
(* its headers and the cookies it deletes.                                  *)

\* models.templates.TemplateResponse(name=name, ...)
TemplateResponse(name) ==
    [name |-> name, status |-> 200, headers |-> <<>>, deleted |-> {}]

\* utils.deauthorize
deauthorize(response) ==
    [response EXCEPT
        !.headers = Put(Put(@, "Cache-Control", "no-cache, no-store, must-revalidate"),
                        "Authorization", ""),
        !.deleted = @ \cup {"session_token"}]

endpoints_session(request) == deauthorize(TemplateResponse("session.html"))

endpoints_login(request) == deauthorize(TemplateResponse("index.html"))

\* endpoints.logout, auth is ws_session.client_auth
endpoints_logout(request, auth) ==
    IF verify_session(Some(request), None, auth) # NoExc
    THEN endpoints_session(request)
    ELSE deauthorize(TemplateResponse("logout.html"))

endpoints_error(request) == deauthorize(TemplateResponse("unauthorized.html"))

----------------------------------------------------------------------------
(* uiauth/service.py *)

\* the params given to FastAPIUIAuth: two HTTP routes and a WebSocket route
Params ==
    << [path |-> "/siriwave.js", function |-> "get_siriwave_js", route |-> "APIRoute"],
       [path |-> "/", function |-> "index", route |-> "APIRoute"],
       [path |-> "/ws", function |-> "websocket_endpoint", route |-> "APIWebSocketRoute"] >>

Functions == {Params[i].function : i \in 1..Len(Params)}
Paths == {Params[i].path : i \in 1..Len(Params)}

Route(path, endpoint, kind, dependencies) ==
    [path |-> path, endpoint |-> endpoint, kind |-> kind, dependencies |-> dependencies]

\* secure_route leaving the WebSocket route without dependencies
secure_route_open_websocket(param) ==
    IF param.route = "APIWebSocketRoute"
    THEN Route(param.path, param.function, "APIWebSocketRoute", {})
    ELSE Route(param.path, param.function, "APIRoute", {"verify_session"})

\* the route _secure builds for one param
secure_route(param) ==
    IF param.route = "APIWebSocketRoute"
    THEN Route(param.path, param.function, "APIWebSocketRoute", {"verify_session"})
    ELSE Route(param.path, param.function, "APIRoute", {"verify_session"})

\* FastAPIUIAuth._secure: app.routes after it
_secure(app_routes, params) ==
    app_routes
    \o [i \in 1..Len(params) |-> secure_route(params[i])]
    \o << Route(fastapi_login, "login", "APIRoute", {}),
          Route(fastapi_logout, "logout", "APIRoute", {}),
          Route(fastapi_session, "session", "APIRoute", {}),
          Route(fastapi_verify_login, "_verify_auth", "APIRoute", {}),
          Route(fastapi_error, "error", "APIRoute", {}) >>

\* the router: the first registered route of the path
Match(app_routes, path) ==
    LET i == CHOOSE j \in 1..Len(app_routes) :
                 /\ app_routes[j].path = path
                 /\ \A k \in 1..(j - 1) : app_routes[k].path # path
    IN app_routes[i]

\* a connection (Request or WebSocket) of host to path; session: None or Some(cookie value)
Connection(host, path, session) ==
    [host |-> host, path |-> path,
     cookies |-> [c \in {n \in {"session_token"} : session # None} |-> Val(session)]]

----------------------------------------------------------------------------
(* What requests may carry *)

\* the signature a client computes from a username, a password and a timestamp
sign(u, p, t) == calculate_hash(hex_encode(Word(u)) \o hex_encode(Word(p)) \o Digits(t))
\* the text a client sends for a username, a signature and a timestamp
Triple(u, s, t) == Word(u) \o <<Comma>> \o s \o <<Comma>> \o Digits(t)
Texts ==
    { Triple("admin", sign("admin", "hunter2", 1), 1),    \* the configured user, signed
      Triple("eve", sign("admin", "hunter2", 1), 1),      \* another username
      Triple("admin", sign("admin", "guess", 1), 1),      \* another password
      Triple("admin", sign("admin", "hunter2", 1), 2),    \* another timestamp than signed
      Word("admin") \o <<Comma>> \o sign("admin", "hunter2", 1),   \* two fields
      Triple("admin", sign("admin", "hunter2", 1), 1) \o <<Comma>> \o Word("x") }  \* four
\* the Authorization header: missing, or a bearer credential
Authorizations ==
    {None}
    \cup {Some([b64 |-> TRUE, hex |-> TRUE, text |-> t]) : t \in Texts}
    \cup {Some([b64 |-> FALSE, hex |-> FALSE, text |-> <<>>]),
          Some([b64 |-> TRUE, hex |-> FALSE, text |-> <<>>])}
\* the session_token cookie: missing, empty, or any token
Sessions == {None, Some(<<>>)} \cup {Some(<<n>>) : n \in 1..MaxKeys}
\* the X-Requested-By cookie: missing, or a path
RequestedBy == {None} \cup {Some(p) : p \in Paths}

\* what kind of credential an Authorization header is
Kind(authorization) ==
    IF authorization = None THEN "none"
    ELSE LET c == Val(authorization) IN
    IF ~c.b64 THEN "base64"
    ELSE IF ~c.hex THEN "hex"
    ELSE LET f == split(c.text) IN
    IF Len(f) # 3 THEN "fields"
    ELSE IF f[1] # env_username THEN "username"
    ELSE IF f[2] # calculate_hash(hex_encode(env_username) \o hex_encode(env_password) \o f[3])
    THEN "signature"
    ELSE "valid"

----------------------------------------------------------------------------
(* State *)

\* ws_session.invalid[host], 0 when the host has no entry
Count(inv, host) == IF host \in DOMAIN inv THEN inv[host] ELSE 0

\* ws_session.client_auth after logins: a host has no token or one, and no
\* two hosts the same
Stores ==
    UNION {{auth \in [S -> {<<n>> : n \in 1..MaxKeys}] :
               \A g, h \in S : auth[g] = auth[h] => g = h} : S \in SUBSET Hosts}

\* what kind of session_token cookie a request of host carries
Cookie(host, session, auth) ==
    IF session = None THEN "none"
    ELSE IF session = Some(<<>>) THEN "empty"
    ELSE IF session = Get(auth, host) THEN "stored"
    ELSE "other"

\* last: op, the host whose entries it wrote ("" when it wrote none), the response
\* (status; dest is the redirect_url of a JSON body, the Location of a redirect,
\* the page rendered or the function that ran), what was sent (the kind of
\* credential, or of cookie relative to the requesting host's stored token),
\* for a verification the host's count before it, and the session_token
\* cookie the response sets (None when it sets none)
NoLast ==
    [op |-> "", host |-> "", status |-> 0, dest |-> "", sent |-> "", before |-> 0,
     cookie |-> None]

\* response.set_cookie(key, value, httponly=True, samesite="strict", max_age)
set_cookie(key, value, max_age) ==
    [key |-> key, value |-> value, httponly |-> TRUE, samesite |-> "strict",
     max_age |-> max_age]

Response(status, dest) == [status |-> status, dest |-> dest]

\* no function called on its own
NoCall == [fn |-> "", args |-> <<>>, out |-> None]

\* a browser without cookies; origin is history: the path verify_session last
\* redirected the browser from, None after a login
NoCookies == [requested_by |-> None, session_token |-> None, origin |-> None]

Init ==
    /\ invalid = [h \in {} |-> 0]
    /\ client_auth = [h \in {} |-> <<>>]
    /\ routes = _secure(<<>>, Params)
    /\ timers = {}
    /\ nextKey = 0
    /\ fired = {}
    /\ streak = [h \in Hosts |-> 0]
    /\ last = NoLast
    /\ browser = [h \in Hosts |-> NoCookies]
    /\ inflight = {}
    /\ called = NoCall

\* service.BEARER_AUTH = HTTPBearer(), the dependency of _verify_auth, with
\* auto_error left at its default: a request without a bearer credential is
\* answered "Not authenticated" before the endpoint runs (403, or 401 with a
\* later release of the framework).  The set of the possible outcomes.
BEARER_AUTH(authorization) ==
    IF authorization = None
    THEN {HTTPException(403, "Not authenticated"), HTTPException(401, "Not authenticated")}
    ELSE {NoExc}

\* FastAPIUIAuth._verify_auth: POST /fastapi-verify-login from host, its
\* dependency first.  The X-Requested-By cookie is read once verify_login has
\* returned.
_verify_auth(host, authorization) ==
    LET login == verify_login(authorization, host, invalid, client_auth, nextKey)
        kind == Kind(authorization)
        before == Count(invalid, host)
    IN
    \E denied \in BEARER_AUTH(authorization) :
    IF denied # NoExc
    THEN /\ last' = [op |-> "verify", host |-> "", status |-> denied.status_code,
                     dest |-> "", sent |-> kind, before |-> before,
                     cookie |-> None]
         /\ UNCHANGED <<invalid, client_auth, routes, timers, nextKey, fired, streak>>
    ELSE
    /\ login.exc = NoExc => nextKey < MaxKeys
    /\ Count(login.invalid, host) <= MaxInvalid
    /\ invalid' = login.invalid
    /\ client_auth' = login.client_auth
    /\ IF login.exc = NoExc
       THEN /\ nextKey' = nextKey + 1
            /\ streak' = [streak EXCEPT ![host] = 0]
            /\ \E requested_by \in RequestedBy :
                  IF TruthyPath(requested_by)
                  THEN /\ timers' = timers \cup {[host |-> host, key |-> Val(login.key),
                                                    interval |-> timeout]}
                       /\ last' = [op |-> "verify", host |-> host, status |-> 200,
                                   dest |-> Val(requested_by), sent |-> kind,
                                   before |-> before,
                                   cookie |-> Some(set_cookie("session_token",
                                                              Val(login.key), timeout))]
                  ELSE /\ timers' = timers
                       /\ last' = [op |-> "verify", host |-> host, status |-> 417,
                                   dest |-> "", sent |-> kind, before |-> before,
                                   cookie |-> None]
       ELSE /\ nextKey' = nextKey
            /\ timers' = timers
            /\ IF login.exc.type = "RedirectException"
               THEN LET response == redirect_exception_handler(fastapi_verify_login,
                                                               login.exc)
                    IN /\ streak' = [streak EXCEPT ![host] = @ + 1]
                       /\ last' = [op |-> "verify", host |-> host,
                                   status |-> response.status, dest |-> response.dest,
                                   sent |-> kind, before |-> before,
                                   cookie |-> None]
               ELSE IF login.exc.type = "HTTPException"
               THEN /\ streak' = [streak EXCEPT ![host] = @ + 1]
                    /\ last' = [op |-> "verify", host |-> host,
                                status |-> login.exc.status_code, dest |-> "",
                                sent |-> kind, before |-> before,
                                cookie |-> None]
               ELSE \* an exception nothing handles: the server answers 500
                    /\ streak' = streak
                    /\ last' = [op |-> "verify", host |-> "", status |-> 500,
                                dest |-> "", sent |-> kind, before |-> before,
                                cookie |-> None]
    /\ UNCHANGED <<routes, fired>>

\* what the dependencies of the route of path raise for a connection of host
Dependencies(host, path, session) ==
    LET route == Match(routes, path)
        conn == Connection(host, path, session)
        ws == route.kind = "APIWebSocketRoute"
    IN IF "verify_session" \in route.dependencies
       THEN verify_session(IF ws THEN None ELSE Some(conn),
                           IF ws THEN Some(conn) ELSE None, client_auth)
       ELSE NoExc

\* Request counting a request its dependencies turn away as a failed attempt
Request_counting_denials(host, path, session) ==
    LET route == Match(routes, path)
        exc == Dependencies(host, path, session)
        response ==
            IF exc = NoExc
            THEN Response(IF route.kind = "APIWebSocketRoute" THEN 101 ELSE 200,
                          route.endpoint)
            ELSE redirect_exception_handler(path, exc)
    IN
    /\ route.endpoint \in Functions
    /\ Count(invalid, host) < MaxInvalid
    /\ invalid' = IF exc = NoExc THEN invalid
                  ELSE failed_auth_counter(invalid, host).invalid
    /\ last' = [NoLast EXCEPT !.op = "request",
                              !.status = response.status, !.dest = response.dest,
                              !.sent = Cookie(host, session, client_auth)]
    /\ UNCHANGED <<client_auth, routes, timers, nextKey, fired, streak>>

\* a request of host to a protected path: the dependencies of its route, then
\* the function of the route (an HTTP response, or the WebSocket accepted)
Request(host, path, session) ==
    LET route == Match(routes, path)
        exc == Dependencies(host, path, session)
        response ==
            IF exc = NoExc
            THEN Response(IF route.kind = "APIWebSocketRoute" THEN 101 ELSE 200,
                          route.endpoint)
            ELSE redirect_exception_handler(path, exc)
    IN
    /\ route.endpoint \in Functions
    /\ last' = [NoLast EXCEPT !.op = "request",
                              !.status = response.status, !.dest = response.dest,
                              !.sent = Cookie(host, session, client_auth)]
    /\ UNCHANGED <<invalid, client_auth, routes, timers, nextKey, fired, streak>>

\* endpoints.logout: GET /fastapi-logout from host
logout(host, session) ==
    LET exc == verify_session(Some(Connection(host, fastapi_logout, session)), None,
                              client_auth)
    IN
    /\ last' = [NoLast EXCEPT !.op = "logout", !.status = 200,
                              !.dest = IF exc = NoExc THEN "logout.html"
                                       ELSE "session.html"]
    /\ UNCHANGED <<invalid, client_auth, routes, timers, nextKey, fired, streak>>

\* a Timer started by _verify_auth fires: utils.clear_session(host)
TimerFires(t) ==
    /\ t \in timers
    /\ timers' = timers \ {t}
    /\ client_auth' = clear_session(t.host, client_auth)
    /\ fired' = fired \cup {t.key}
    /\ last' = [NoLast EXCEPT !.op = "timer", !.host = t.host]
    /\ UNCHANGED <<invalid, routes, nextKey, streak>>

\* any client: requests carry whatever cookies and credentials
Next ==
    \/ \E host \in Hosts, authorization \in Authorizations :
          _verify_auth(host, authorization) /\ UNCHANGED <<browser, inflight, called>>
    \/ \E host \in Hosts, path \in Paths, session \in Sessions :
          Request(host, path, session) /\ UNCHANGED <<browser, inflight, called>>
    \/ \E host \in Hosts, session \in Sessions :
          logout(host, session) /\ UNCHANGED <<browser, inflight, called>>
    \/ \E t \in timers : TimerFires(t) /\ UNCHANGED <<browser, inflight, called>>

Spec == Init /\ [][Next]_vars

----------------------------------------------------------------------------
(* A browser per host, which keeps the cookies the responses set and sends  *)
(* them back.                                                               *)

\* the browser of host opens a protected HTTP path; when verify_session
\* redirects it, the response sets X-Requested-By and the page it lands on
\* (login or session, through utils.deauthorize) deletes session_token
Navigate(host, path) ==
    LET exc == Dependencies(host, path, browser[host].session_token) IN
    /\ Match(routes, path).kind = "APIRoute"
    /\ Request(host, path, browser[host].session_token)
    /\ browser' =
          IF exc = NoExc THEN browser
          ELSE [browser EXCEPT ![host] =
                  [requested_by |->
                       Some(redirect_exception_handler(path, exc).requested_by),
                   session_token |-> None,
                   origin |-> Some(path)]]
    /\ UNCHANGED <<inflight, called>>

\* the login page of the browser of host posts a credential, with the
\* X-Requested-By cookie the browser holds
Submit(host, authorization) ==
    LET login == verify_login(authorization, host, invalid, client_auth, nextKey)
        cookie == browser[host].requested_by
    IN
    /\ _verify_auth(host, authorization)
    /\ last'.sent = "valid" =>
          IF TruthyPath(cookie)
          THEN last'.status = 200 /\ last'.dest = Val(cookie)
          ELSE last'.status = 417
    /\ browser' =
          IF last'.cookie # None
          THEN \* set_cookie("session_token"), delete_cookie("X-Requested-By")
               [browser EXCEPT ![host] =
                   [requested_by |-> None,
                    session_token |-> Some(Val(last'.cookie).value),
                    origin |-> None]]
          ELSE IF authorization # None /\ login.exc.type = "RedirectException"
          THEN [browser EXCEPT ![host].requested_by =
                   Some(redirect_exception_handler(fastapi_verify_login,
                                                   login.exc).requested_by)]
          ELSE browser
    /\ UNCHANGED <<inflight, called>>

BrowserNext ==
    \/ \E host \in Hosts, path \in Paths : Navigate(host, path)
    \/ \E host \in Hosts, authorization \in Authorizations :
          Submit(host, authorization)
    \/ \E t \in timers : TimerFires(t) /\ UNCHANGED <<browser, inflight, called>>

BrowserSpec == Init /\ [][BrowserNext]_vars

----------------------------------------------------------------------------
(* fastapiauthenticator/service.py: the Authenticator, which protects an    *)
(* HTTP path by swapping the route registered for it.  A login and a timer  *)
(* run in threads of their own, each list operation on app.routes is a      *)
(* step.  Routes compare as Starlette compares them, by path and endpoint   *)
(* (and methods, GET throughout).  The verification it calls and the        *)
(* timeout of its params are not in the package as it stands: they are      *)
(* taken to be verify_login and timeout above.                              *)

\* Authenticator.route_map: the params of the HTTP routes, by path
route_map ==
    [path \in {Params[i].path : i \in {j \in 1..Len(Params) : Params[j].route = "APIRoute"}}
        |-> CHOOSE param \in {Params[i] : i \in 1..Len(Params)} : param.path = path]

\* the route _verify_auth registers for a param
private_route(parameter) ==
    Route(parameter.path, parameter.function, "APIRoute", {"session_check"})

\* the route _setup_session_route registers in the place of secure_route
session_route(route) == Route(route.path, "session", "APIRoute", {})

\* Authenticator._secure: app.routes after it
Authenticator_secure(app_routes, params) ==
    app_routes
    \o [i \in 1..Len(params) |->
           IF params[i].route = "APIWebSocketRoute"
           THEN Route(params[i].path, params[i].function, "APIWebSocketRoute",
                      {"session_check"})
           ELSE Route(params[i].path, "login", "APIRoute", {})]
    \o << Route(fastapi_session, "session", "APIRoute", {}),
          Route(fastapi_verify_login, "_verify_auth", "APIRoute", {}),
          Route(fastapi_error, "error", "APIRoute", {}) >>

\* list.remove at the least of the indices, the list itself when there is none
RemoveFirst(list, indices) ==
    IF indices = {} THEN list
    ELSE LET i == CHOOSE j \in indices : \A k \in indices : j <= k
         IN SubSeq(list, 1, i - 1) \o SubSeq(list, i + 1, Len(list))

\* how many routes app.routes holds for a path
Registered(app_routes, path) ==
    Cardinality({i \in 1..Len(app_routes) : app_routes[i].path = path})

AuthenticatorInit ==
    /\ invalid = [h \in {} |-> 0]
    /\ client_auth = [h \in {} |-> <<>>]
    /\ routes = Authenticator_secure(<<>>, Params)
    /\ timers = {}
    /\ nextKey = 0
    /\ fired = {}
    /\ streak = [h \in Hosts |-> 0]
    /\ last = NoLast
    /\ browser = [h \in Hosts |-> NoCookies]
    /\ inflight = {}
    /\ called = NoCall

\* Authenticator._verify_auth up to the route it builds: POST
\* /fastapi-verify-login from host, sent by the login page of destination
Authenticator_verify_auth(host, authorization, destination) ==
    LET login == verify_login(authorization, host, invalid, client_auth, nextKey) IN
    /\ authorization # None
    /\ login.exc = NoExc => nextKey < MaxKeys
    /\ Count(login.invalid, host) <= MaxInvalid
    /\ invalid' = login.invalid
    /\ client_auth' = login.client_auth
    /\ nextKey' = IF login.exc = NoExc THEN nextKey + 1 ELSE nextKey
    /\ inflight' =
          IF login.exc = NoExc /\ destination \in DOMAIN route_map
          THEN inflight \cup {[op |-> "login", pc |-> "remove", host |-> host,
                               key |-> Val(login.key),
                               route |-> private_route(route_map[destination])]}
          ELSE inflight
    /\ last' = [NoLast EXCEPT !.op = "verify", !.host = host,
                              !.status = IF login.exc = NoExc THEN 0 ELSE 401]
    /\ UNCHANGED <<routes, timers, fired, streak, browser, called>>

\* the loop of _verify_auth: the first route of the path is removed
ReplaceRemove(call) ==
    /\ call \in inflight /\ call.op = "login" /\ call.pc = "remove"
    /\ routes' = RemoveFirst(routes, {i \in 1..Len(routes) :
                                         routes[i].path = call.route.path})
    /\ inflight' = (inflight \ {call}) \cup {[call EXCEPT !.pc = "append"]}
    /\ last' = [NoLast EXCEPT !.op = "remove", !.host = call.host]
    /\ UNCHANGED <<invalid, client_auth, timers, nextKey, fired, streak, browser, called>>

\* the rest of _verify_auth: the private route is appended, _handle_session
\* starts the Timer and sets the cookie
ReplaceAppend(call) ==
    /\ call \in inflight /\ call.op = "login" /\ call.pc = "append"
    /\ routes' = Append(routes, call.route)
    /\ timers' = timers \cup {[host |-> call.host, key |-> call.key,
                               interval |-> timeout, route |-> call.route]}
    /\ inflight' = inflight \ {call}
    /\ last' = [NoLast EXCEPT !.op = "append", !.host = call.host, !.status = 200,
                              !.dest = call.route.path]
    /\ UNCHANGED <<invalid, client_auth, nextKey, fired, streak, browser, called>>

\* a Timer fires, _setup_session_route: app.routes.remove(secure_route),
\* which raises ValueError when no route equals it
SessionRemove(t) ==
    LET equal == {i \in 1..Len(routes) : routes[i] = t.route} IN
    /\ t \in timers
    /\ timers' = timers \ {t}
    /\ fired' = fired \cup {t.key}
    /\ routes' = RemoveFirst(routes, equal)
    /\ inflight' = IF equal = {} THEN inflight
                   ELSE inflight \cup {[op |-> "timer", pc |-> "append", host |-> t.host,
                                        key |-> t.key, route |-> t.route]}
    /\ last' = [NoLast EXCEPT !.op = "timer", !.host = t.host,
                              !.status = IF equal = {} THEN 500 ELSE 0]
    /\ UNCHANGED <<invalid, client_auth, nextKey, streak, browser, called>>

\* the rest of _setup_session_route: the session route is appended
SessionAppend(call) ==
    /\ call \in inflight /\ call.op = "timer" /\ call.pc = "append"
    /\ routes' = Append(routes, session_route(call.route))
    /\ inflight' = inflight \ {call}
    /\ last' = [NoLast EXCEPT !.op = "session", !.host = call.host]
    /\ UNCHANGED <<invalid, client_auth, timers, nextKey, fired, streak, browser, called>>

AuthenticatorNext ==
    \/ \E host \in Hosts, authorization \in Authorizations, destination \in Paths :
          Authenticator_verify_auth(host, authorization, destination)
    \/ \E call \in inflight : ReplaceRemove(call)
    \/ \E call \in inflight : ReplaceAppend(call)
    \/ \E t \in timers : SessionRemove(t)
    \/ \E call \in inflight : SessionAppend(call)

AuthenticatorSpec == AuthenticatorInit /\ [][AuthenticatorNext]_vars

----------------------------------------------------------------------------
(* uiauth served by threads.  The verification endpoint and verify_session  *)
(* are plain functions, which the framework runs in a pool of threads; a    *)
(* Timer is a thread of its own.  Nothing in the package locks, so a step   *)
(* here is one read or one write of a shared dict: the += of                *)
(* failed_auth_counter is a read and a write, between which another thread  *)
(* may run.  A protected request is a thread from the moment its            *)
(* dependencies have passed to the moment its function returns.  The run    *)
(* starts with the sessions earlier logins have left, each with its Timer.  *)

Thread(op, pc, host, id, read, path, session) ==
    [op |-> op, pc |-> pc, host |-> host, id |-> id, read |-> read, path |-> path,
     session |-> session]

\* the threads of host that are inside failed_auth_counter
Counting(host) == {thread \in inflight : thread.op = "verify" /\ thread.host = host}

ThreadInit ==
    /\ client_auth \in Stores
    /\ invalid = [h \in DOMAIN client_auth |-> 0]
    /\ routes = _secure(<<>>, Params)
    /\ timers = {[host |-> h, key |-> client_auth[h], interval |-> timeout] :
                    h \in DOMAIN client_auth}
    /\ nextKey = MaxKeys
    /\ fired = {}
    /\ streak = [h \in Hosts |-> 0]
    /\ last = NoLast
    /\ browser = [h \in Hosts |-> NoCookies]
    /\ inflight = {}
    /\ called = NoCall

\* POST /fastapi-verify-login from host with a wrong username or signature:
\* verify_login calls raise_error, which calls failed_auth_counter
VerifyFails(host, authorization) ==
    /\ Kind(authorization) \in {"username", "signature"}
    /\ Cardinality(inflight) < MaxThreads
    /\ streak[host] + Cardinality(Counting(host)) < MaxInvalid
    /\ \E id \in 1..MaxThreads :
          /\ \A thread \in inflight : thread.id # id
          /\ inflight' = inflight \cup
                {Thread("verify", "read", host, id, 0, fastapi_verify_login, None)}
    /\ last' = [NoLast EXCEPT !.op = "verify", !.sent = Kind(authorization)]
    /\ UNCHANGED <<invalid, client_auth, routes, timers, nextKey, fired, streak,
                   browser, called>>

\* failed_auth_counter, the read of ws_session.invalid[host] += 1, which
\* raises KeyError when the host has no entry
CounterRead(thread) ==
    /\ thread \in inflight /\ thread.op = "verify" /\ thread.pc = "read"
    /\ inflight' = (inflight \ {thread}) \cup
          {IF thread.host \in DOMAIN invalid
           THEN [thread EXCEPT !.pc = "write", !.read = invalid[thread.host]]
           ELSE [thread EXCEPT !.pc = "write", !.read = 0]}
    /\ last' = [NoLast EXCEPT !.op = "read"]
    /\ UNCHANGED <<invalid, client_auth, routes, timers, nextKey, fired, streak,
                   browser, called>>

\* failed_auth_counter, the write: of the sum, or of 1 after the KeyError
CounterWrite(thread) ==
    /\ thread \in inflight /\ thread.op = "verify" /\ thread.pc = "write"
    /\ invalid' = Put(invalid, thread.host, thread.read + 1)
    /\ inflight' = (inflight \ {thread}) \cup
          {[thread EXCEPT !.pc = "check", !.read = thread.read + 1]}
    /\ last' = [NoLast EXCEPT !.op = "write"]
    /\ UNCHANGED <<client_auth, routes, timers, nextKey, fired, streak, browser, called>>

\* failed_auth_counter, the test of the count, and the response of the
\* verification: the redirect to the error page as JSON, or the 401 of
\* raise_error.  before is what this thread itself wrote, less one.
CounterCheck(thread) ==
    LET exc == IF invalid[thread.host] >= 3
               THEN RedirectException(fastapi_error, "/", "")
               ELSE HTTPException(401, "Incorrect username or password")
    IN
    /\ thread \in inflight /\ thread.op = "verify" /\ thread.pc = "check"
    /\ inflight' = inflight \ {thread}
    /\ streak' = [streak EXCEPT ![thread.host] = @ + 1]
    /\ last' = IF exc.type = "RedirectException"
               THEN [NoLast EXCEPT
                       !.op = "check", !.host = thread.host,
                       !.status = redirect_exception_handler(thread.path, exc).status,
                       !.dest = redirect_exception_handler(thread.path, exc).dest,
                       !.before = thread.read - 1]
               ELSE [NoLast EXCEPT !.op = "check", !.host = thread.host,
                                   !.status = exc.status_code,
                                   !.before = thread.read - 1]
    /\ UNCHANGED <<invalid, client_auth, routes, timers, nextKey, fired, browser, called>>

\* a request of host arrives at a protected path: its dependencies run; when
\* they raise, the response is the redirect, otherwise the function of the
\* route is about to run
Enter(host, path, session) ==
    LET exc == Dependencies(host, path, session) IN
    /\ Match(routes, path).endpoint \in Functions
    /\ IF exc = NoExc
       THEN /\ Cardinality(inflight) < MaxThreads
            /\ inflight' = inflight \cup
                   {Thread("request", "function", host, 0, 0, path, session)}
            /\ last' = [NoLast EXCEPT !.op = "enter",
                                      !.sent = Cookie(host, session, client_auth)]
       ELSE /\ inflight' = inflight
            /\ last' = [NoLast EXCEPT !.op = "enter",
                           !.status = redirect_exception_handler(path, exc).status,
                           !.dest = redirect_exception_handler(path, exc).dest,
                           !.sent = Cookie(host, session, client_auth)]
    /\ UNCHANGED <<invalid, client_auth, routes, timers, nextKey, fired, streak,
                   browser, called>>

\* Serve looking the session up once more before it answers
Serve_checking_again(thread) ==
    LET route == Match(routes, thread.path)
        exc == Dependencies(thread.host, thread.path, thread.session)
    IN
    /\ thread \in inflight /\ thread.op = "request" /\ thread.pc = "function"
    /\ inflight' = inflight \ {thread}
    /\ last' = [NoLast EXCEPT
                   !.op = "serve",
                   !.status = IF exc # NoExc
                              THEN redirect_exception_handler(thread.path, exc).status
                              ELSE IF route.kind = "APIWebSocketRoute" THEN 101 ELSE 200,
                   !.dest = IF exc # NoExc
                            THEN redirect_exception_handler(thread.path, exc).dest
                            ELSE route.endpoint,
                   !.sent = Cookie(thread.host, thread.session, client_auth)]
    /\ UNCHANGED <<invalid, client_auth, routes, timers, nextKey, fired, streak,
                   browser, called>>

\* the function of the route returns: an HTTP response, or the WebSocket
\* accepted.  sent is the cookie of the request against the store as it is now.
Serve(thread) ==
    LET route == Match(routes, thread.path) IN
    /\ thread \in inflight /\ thread.op = "request" /\ thread.pc = "function"
    /\ inflight' = inflight \ {thread}
    /\ last' = [NoLast EXCEPT
                   !.op = "serve",
                   !.status = IF route.kind = "APIWebSocketRoute" THEN 101 ELSE 200,
                   !.dest = route.endpoint,
                   !.sent = Cookie(thread.host, thread.session, client_auth)]
    /\ UNCHANGED <<invalid, client_auth, routes, timers, nextKey, fired, streak,
                   browser, called>>

\* the threads of failed verifications
CounterNext ==
    \/ \E host \in Hosts, authorization \in Authorizations :
          VerifyFails(host, authorization)
    \/ \E thread \in inflight : CounterRead(thread)
    \/ \E thread \in inflight : CounterWrite(thread)
    \/ \E thread \in inflight : CounterCheck(thread)

CounterSpec == ThreadInit /\ [][CounterNext]_vars

\* the threads of protected requests, and the Timers
ThreadNext ==
    \/ \E host \in Hosts, path \in Paths, session \in Sessions :
          Enter(host, path, session)
    \/ \E thread \in inflight : Serve(thread)
    \/ \E t \in timers : TimerFires(t) /\ UNCHANGED <<browser, inflight, called>>

ThreadSpec == ThreadInit /\ [][ThreadNext]_vars

----------------------------------------------------------------------------
(* The Timer threads of uiauth.  threading.Timer runs clear_session in a    *)
(* thread of its own, and clear_session is a get followed by a pop of the   *)
(* shared dict with no lock: another Timer of the same host may run between *)
(* the two.  An exception in a Timer thread is not answered to anyone; it   *)
(* is recorded as status 500.                                               *)

\* if models.ws_session.client_auth.get(host): ... else: logger warning
ClearGet(t) ==
    /\ t \in timers
    /\ timers' = timers \ {t}
    /\ fired' = fired \cup {t.key}
    /\ IF Truthy(Get(client_auth, t.host))
       THEN /\ inflight' = inflight \cup
                             {Thread("timer", "pop", t.host, t.key, 0, "", None)}
            /\ last' = last
       ELSE /\ inflight' = inflight
            /\ last' = [NoLast EXCEPT !.op = "timer", !.host = t.host]
    /\ UNCHANGED <<invalid, client_auth, routes, nextKey, streak, browser, called>>

\* models.ws_session.client_auth.pop(host): KeyError when the key is gone
ClearPop(thread) ==
    /\ thread \in inflight
    /\ thread.op = "timer" /\ thread.pc = "pop"
    /\ inflight' = inflight \ {thread}
    /\ IF thread.host \in DOMAIN client_auth
       THEN /\ client_auth' = Pop(client_auth, thread.host)
            /\ last' = [NoLast EXCEPT !.op = "timer", !.host = thread.host]
       ELSE /\ client_auth' = client_auth
            /\ last' = [NoLast EXCEPT !.op = "timer", !.host = thread.host,
                                      !.status = 500]
    /\ UNCHANGED <<invalid, routes, timers, nextKey, fired, streak, browser, called>>

\* logins, each starting a Timer, and the two steps of every Timer
TimerNext ==
    \/ \E host \in Hosts, authorization \in Authorizations :
          _verify_auth(host, authorization) /\ UNCHANGED <<browser, inflight, called>>
    \/ \E t \in timers : ClearGet(t)
    \/ \E thread \in inflight : ClearPop(thread)

TimerSpec == Init /\ [][TimerNext]_vars

----------------------------------------------------------------------------
(* Functions of the package called on their own, also with arguments the    *)
(* routes of the package never give them.  The session store is any store   *)
(* that logins leave behind.                                                *)

\* everything but called
server == <<invalid, client_auth, routes, timers, nextKey, fired, streak, last,
            browser, inflight>>

\* the detail cookie of a request: missing, or any text
DetailCookies == {None} \cup {Some(upper(d)) : d \in Details}

\* the connection with one more cookie
WithCookie(connection, name, value) ==
    [connection EXCEPT !.cookies = Put(@, name, value)]

\* the connections a guard may be given
Connections ==
    {IF detail = None THEN Connection(host, path, session)
     ELSE WithCookie(Connection(host, path, session), "detail", Val(detail)) :
        host \in Hosts, path \in {"/", "/ws"}, session \in Sessions,
        detail \in DetailCookies}

\* utils.verify_session(api_request, api_websocket) as a call: with a Request,
\* with a WebSocket, with neither
GuardCalls ==
    {[fn |-> "verify_session", out |-> None,
      args |-> [api_request |-> Some(c), api_websocket |-> None]] : c \in Connections}
    \cup {[fn |-> "verify_session", out |-> None,
           args |-> [api_request |-> None, api_websocket |-> Some(c)]] : c \in Connections}
    \cup {[fn |-> "verify_session", out |-> None,
           args |-> [api_request |-> None, api_websocket |-> None]]}

\* utils.redirect_exception_handler(request, exception) as a call
TranslateCalls ==
    {[fn |-> "redirect_exception_handler", out |-> None,
      args |-> [path |-> path,
                exception |-> RedirectException(destination, source, detail)]] :
        path \in Paths \cup {fastapi_verify_login, fastapi_logout},
        destination \in {fastapi_login, fastapi_session, fastapi_error},
        source \in Paths, detail \in Details}

\* os.environ: each of three variables unset, empty or set
Environs ==
    UNION {[S -> {"", "from-env"}] : S \in SUBSET {"USERNAME", "user", "PASSWORD"}}

\* FastAPIUIAuth(app, params, username=..., password=...) as a call: each
\* argument left out (None), empty or given
ConstructCalls ==
    {[fn |-> "EnvConfig", out |-> None,
      args |-> [username |-> username, password |-> password, environ |-> environ]] :
        username \in {None, Some(""), Some("admin")},
        password \in {None, Some(""), Some("hunter2")},
        environ \in Environs}

\* a GET of one of the pages as a call
PageCalls ==
    {[fn |-> "endpoints", out |-> None, args |-> [path |-> path, request |-> c]] :
        path \in {fastapi_login, fastapi_logout, fastapi_session, fastapi_error},
        c \in Connections}

\* os.environ for get_env: each of four names unset, empty, or set to a value
\* that tells which name it was read from
NamedEnvirons ==
    UNION {[S -> {"", "as given", "in upper case", "in lower case", "second key"}] :
              S \in SUBSET {"Username", "USERNAME", "username", "PASSWORD"}}
GetEnvEnvirons ==
    {environ \in NamedEnvirons :
        /\ Get(environ, "Username") \in {None, Some(""), Some("as given")}
        /\ Get(environ, "USERNAME") \in {None, Some(""), Some("in upper case")}
        /\ Get(environ, "username") \in {None, Some(""), Some("in lower case")}
        /\ Get(environ, "PASSWORD") \in {None, Some(""), Some("second key")}}

\* get_env(keys, default) as a call
GetEnvCalls ==
    {[fn |-> "get_env", out |-> None,
      args |-> [keys |-> keys, default |-> default, environ |-> environ]] :
        keys \in {<<>>, <<"Username">>, <<"Username", "Password">>,
                  <<"Password", "Username">>, <<"username", "user">>},
        default \in {None, Some("fallback")},
        environ \in GetEnvEnvirons}

Calls == GuardCalls \cup TranslateCalls \cup ConstructCalls \cup PageCalls
            \cup GetEnvCalls

UnitInit ==
    /\ client_auth \in Stores
    /\ invalid = [h \in DOMAIN client_auth |-> 0]
    /\ routes = _secure(<<>>, Params)
    /\ timers = {}
    /\ nextKey = MaxKeys
    /\ fired = {}
    /\ streak = [h \in Hosts |-> 0]
    /\ last = NoLast
    /\ browser = [h \in Hosts |-> NoCookies]
    /\ inflight = {}
    /\ called \in Calls

\* the call of utils.verify_session returns or raises
Guard ==
    /\ called.fn = "verify_session" /\ called.out = None
    /\ called' = [called EXCEPT !.out =
                     Some(verify_session(called.args.api_request,
                                         called.args.api_websocket, client_auth))]
    /\ UNCHANGED server

\* the call of utils.redirect_exception_handler returns
Translate ==
    /\ called.fn = "redirect_exception_handler" /\ called.out = None
    /\ called' = [called EXCEPT !.out =
                     Some(redirect_exception_handler(called.args.path,
                                                     called.args.exception))]
    /\ UNCHANGED server

\* FastAPIUIAuth.__init__ sets models.env, or the validation fails
Construct ==
    /\ called.fn = "EnvConfig" /\ called.out = None
    /\ called' = [called EXCEPT !.out =
                     Some(EnvConfig(called.args.username, called.args.password,
                                    called.args.environ))]
    /\ UNCHANGED server

\* the endpoint of the path returns its page
Page ==
    LET request == [called.args.request EXCEPT !.path = called.args.path] IN
    /\ called.fn = "endpoints" /\ called.out = None
    /\ called' = [called EXCEPT !.out = Some(
          CASE called.args.path = fastapi_login -> endpoints_login(request)
            [] called.args.path = fastapi_logout -> endpoints_logout(request, client_auth)
            [] called.args.path = fastapi_session -> endpoints_session(request)
            [] called.args.path = fastapi_error -> endpoints_error(request))]
    /\ UNCHANGED server

\* the call of models.get_env returns; out holds the str or None returned
GetEnv ==
    /\ called.fn = "get_env" /\ called.out = None
    /\ called' = [called EXCEPT !.out =
                     Some(get_env(called.args.environ, called.args.keys,
                                  called.args.default))]
    /\ UNCHANGED server

UnitNext ==
    \/ Guard
    \/ Translate
    \/ Construct
    \/ Page
    \/ GetEnv

UnitSpec == UnitInit /\ [][UnitNext]_vars

----------------------------------------------------------------------------
(* Properties *)

\* the responses a failed verification may get: the generic 401, or the
\* redirect to the error page, which the verification endpoint gets as the
\* JSON body {"redirect_url": "/fastapi-error"} with status 200
Unauthorized(response) == response.status = 401 /\ response.dest = ""
LockedOut(response) == response.status = 200 /\ response.dest = fastapi_error

\* C1: right after a verification from host c with the configured username
\* and the matching signature, the store holds for c a token that
\* verify_session allows when c presents it, on every protected path, and
\* answers with a redirect when any other host presents it.
C1_TokenOfItsHostOnly ==
    (last.op = "verify" /\ last.sent = "valid") =>
        /\ last.host \in DOMAIN client_auth
        /\ client_auth[last.host] = <<nextKey>>
        /\ \A p \in Paths :
              /\ Dependencies(last.host, p, Some(client_auth[last.host])) = NoExc
              /\ \A d \in Hosts \ {last.host} :
                    Dependencies(d, p, Some(client_auth[last.host])).type
                        = "RedirectException"

\* a host has just logged in while the other host holds a session of its own
C1_Witness ==
    /\ last.op = "verify" /\ last.sent = "valid"
    /\ \E d \in Hosts \ {last.host} : d \in DOMAIN client_auth

\* C2: every route bound to a function of the params carries verify_session
\* as a dependency, and a request to a protected path (HTTP or WebSocket)
\* reaches the function only when the store holds a token for the requesting
\* host and the session_token cookie equals it; any other request is answered
\* with a redirect and the function does not run.
C2_FunctionOnlyBehindGuard ==
    /\ \A i \in 1..Len(routes) :
          routes[i].endpoint \in Functions => "verify_session" \in routes[i].dependencies
    /\ last.op = "request" =>
          IF last.sent = "stored"
          THEN last.status \in {200, 101} /\ last.dest \in Functions
          ELSE last.status = 307 /\ last.dest \in {fastapi_login, fastapi_session}

\* the WebSocket function has run for a host presenting its stored token
C2_Witness ==
    last.op = "request" /\ last.status = 101 /\ last.dest = "websocket_endpoint"

\* C3 as claimed: cookie absent => login redirect; cookie present and equal
\* to the stored token => allowed; cookie present and different from the
\* stored token, or none stored => session redirect; the source of both
\* redirects is the requested path.
C3_ThreeWayAsClaimed ==
    \A h \in Hosts, p \in Paths, s \in Sessions :
        Dependencies(h, p, s) =
            IF s = None THEN RedirectException(fastapi_login, p, "")
            ELSE IF s = Get(client_auth, h) THEN NoExc
            ELSE RedirectException(fastapi_session, p, "")

\* C3, amended: cookie absent or empty => login redirect; cookie non-empty
\* and equal to the stored token => allowed; cookie non-empty and different
\* from the stored token, or none stored => session redirect; the source of
\* both redirects is the requested path, and the two destinations differ.
C3_ThreeWayEmptyIsAbsent ==
    /\ fastapi_login # fastapi_session
    /\ \A h \in Hosts, p \in Paths, s \in Sessions :
          Dependencies(h, p, s) =
              IF s \in {None, Some(<<>>)} THEN RedirectException(fastapi_login, p, "")
              ELSE IF s = Get(client_auth, h) THEN NoExc
              ELSE RedirectException(fastapi_session, p, "")

\* a request with an empty session_token cookie has been sent to the login page
C3_Witness ==
    last.op = "request" /\ last.sent = "empty" /\ last.dest = fastapi_login

C5_SuccessResetsCounter ==
    (last.op = "verify" /\ last.sent = "valid") =>
        /\ last.host \in DOMAIN invalid
        /\ invalid[last.host] = 0
        /\ LET first == raise_error(invalid, last.host)
               second == raise_error(first.invalid, last.host)
           IN /\ first.exc = HTTPException(401, "Incorrect username or password")
              /\ second.exc = HTTPException(401, "Incorrect username or password")

\* a host that had reached the threshold has logged in
C5_Witness ==
    last.op = "verify" /\ last.sent = "valid" /\ last.before >= 3

\* C6 as claimed: when a host has logged in again and the timer of its
\* earlier token fires while the timer of the stored token is still pending,
\* the store keeps the stored token (and verify_session still allows it).
C6_StaleTimerSparesNewSession ==
    [][\A t \in timers :
          (/\ TimerFires(t)
           /\ Get(client_auth, t.host) \notin {None, Some(t.key)}
           /\ \E t1 \in timers : t1.host = t.host /\ Some(t1.key) = Get(client_auth, t.host))
              => /\ client_auth' = client_auth
                 /\ \A p \in Paths :
                       verify_session(Some(Connection(t.host, p, Get(client_auth, t.host))),
                                      None, client_auth') = NoExc]_vars

C8_LogoutClearsStore ==
    [][\A h \in Hosts, s \in Sessions :
          (logout(h, s) /\ s = Get(client_auth, h) /\ last'.dest = "logout.html")
              => h \notin DOMAIN client_auth']_vars

\* C9 as claimed: a verification with a credential that is not base64, not
\* hex or not three fields is answered like a mismatch (401, or the redirect
\* at the threshold), counts one failure for the host and stores no token.
C9_MalformedIsCountedFailure ==
    [][\A h \in Hosts, a \in Authorizations :
          (Kind(a) \in {"base64", "hex", "fields"} /\ _verify_auth(h, a))
              => /\ Unauthorized(last') \/ LockedOut(last')
                 /\ Count(invalid', h) = Count(invalid, h) + 1
                 /\ client_auth' = client_auth]_vars

\* C10 as claimed: a verification request without a credential counts one
\* failure for the host, is answered 401 (or with the redirect at the
\* threshold) and stores no token.
C10_NoCredentialIsCountedFailure ==
    [][\A h \in Hosts :
          _verify_auth(h, None)
              => /\ Unauthorized(last') \/ LockedOut(last')
                 /\ Count(invalid', h) = Count(invalid, h) + 1
                 /\ client_auth' = client_auth]_vars

\* C11 as claimed: every verification that ends in a failure counts exactly
\* one failure for the host, and the count is written before the 401 or the
\* redirect is raised; no failure leaves the count as it was.
C11_EveryFailureCounted ==
    [][\A h \in Hosts, a \in Authorizations :
          (Kind(a) # "valid" /\ _verify_auth(h, a))
              => Count(invalid', h) = Count(invalid, h) + 1]_vars

\* C12: in every reachable state and for every host, whatever its count of
\* failures, verify_login with a valid credential raises nothing, stores a
\* fresh token for the host and sets its count to 0; and a verification with
\* a valid credential that has taken place was answered neither 401 nor with
\* the redirect to the error page.
C12_LockoutNeverBlocks ==
    /\ \A h \in Hosts, a \in Authorizations :
          Kind(a) = "valid" =>
              LET login == verify_login(a, h, invalid, client_auth, nextKey)
              IN /\ login.exc = NoExc
                 /\ login.key = Some(<<nextKey + 1>>)
                 /\ Get(login.client_auth, h) = login.key
                 /\ Get(login.invalid, h) = Some(0)
    /\ (last.op = "verify" /\ last.sent = "valid") =>
          /\ last.status \in {200, 417}
          /\ ~LockedOut(last)
          /\ Get(client_auth, last.host) = Some(<<nextKey>>)

\* a host with three failures has logged in and been sent to its path
C12_Witness ==
    /\ last.op = "verify" /\ last.sent = "valid" /\ last.before >= 3
    /\ last.status = 200 /\ last.dest \in Paths
    /\ \E t \in timers : t.host = last.host /\ t.key = <<nextKey>>

\* C13 as claimed: a failed verification of a host that already has three or
\* more failures in a row is answered with the redirect to the error page,
\* whatever the reason of the failure.
C13_LockedOutWhateverTheReason ==
    (last.op = "verify" /\ last.sent # "valid" /\ last.before >= 3) => LockedOut(last)

\* C14: the store holds at most one token per host: of all tokens,
\* verify_session allows a host at most one, and right after a login of a
\* host it is the new one, every token issued before being answered with the
\* redirect to the session page.
C14_NewestTokenOnly ==
    /\ \A h \in Hosts, p \in Paths :
          Cardinality({s \in Sessions : Dependencies(h, p, s) = NoExc}) <= 1
    /\ (last.op = "verify" /\ last.sent = "valid") =>
          \A p \in Paths :
             /\ Dependencies(last.host, p, Some(<<nextKey>>)) = NoExc
             /\ \A k \in 1..(nextKey - 1) :
                   Dependencies(last.host, p, Some(<<k>>))
                       = RedirectException(fastapi_session, p, "")

\* a host has logged in a second time while the timer of its first token is pending
C14_Witness ==
    /\ last.op = "verify" /\ last.sent = "valid" /\ nextKey = 2
    /\ \E t \in timers : t.host = last.host /\ t.key = <<1>>

\* C15: the count of failures of a host changes only in a verification of
\* that host which wrote shared state, and then it either grows or is set to
\* 0 by a valid credential; requests, logouts, timers and the verifications
\* of other hosts leave it as it is.
C15_CounterOnlyGrowsOrResets ==
    [][\A h \in Hosts :
          Count(invalid', h) # Count(invalid, h)
              => /\ last'.op = "verify" /\ last'.host = h
                 /\ IF last'.sent = "valid"
                    THEN Count(invalid', h) = 0
                    ELSE Count(invalid', h) > Count(invalid, h)]_vars

\* a host has logged in while the other host has two failures counted
C15_Witness ==
    /\ last.op = "verify" /\ last.sent = "valid"
    /\ \E d \in Hosts \ {last.host} : Count(invalid, d) = 2

\* C17 as claimed: when a timer started by a login of a host fires, the
\* route of a protected path is bound to the session page instead of its
\* function, and the store holds no token for the host any more.
C17_ExpiryFlipsRouteAndClearsStore ==
    [][\A t \in timers :
          TimerFires(t)
              => /\ t.host \notin DOMAIN client_auth'
                 /\ \E p \in Paths : Match(routes', p).endpoint = "session"]_vars

\* C18 as claimed: the response to every verification with a valid
\* credential sets the cookie session_token to the token stored for the
\* host, httponly, samesite strict, with max_age the session timeout, and a
\* timer with that timeout is started for the host.
C18_SuccessSetsCookieAndTimer ==
    (last.op = "verify" /\ last.sent = "valid") =>
        /\ last.cookie = Some([key |-> "session_token",
                               value |-> client_auth[last.host],
                               httponly |-> TRUE, samesite |-> "strict",
                               max_age |-> timeout])
        /\ \E t \in timers :
              t.host = last.host /\ t.key = client_auth[last.host] /\ t.interval = timeout

\* C19 as claimed: when verify_session has redirected the browser of a host
\* from the path p and the host then logs in, after any number of failed
\* verifications, the response to the login is {"redirect_url": p} and the
\* X-Requested-By cookie is deleted.
C19_ReturnToOrigin ==
    [][\A h \in Hosts, a \in Authorizations :
          (Kind(a) = "valid" /\ browser[h].origin # None /\ Submit(h, a))
              => /\ last'.status = 200
                 /\ last'.dest = Val(browser[h].origin)
                 /\ browser'[h].requested_by = None]_vars

\* C20: a RedirectException is answered with one response, chosen by the
\* path of the request alone: raised by a verification (the third mismatch
\* and later) it is the JSON body {"redirect_url": destination} with status
\* 200, on every other path it is the redirect to the destination (307).
C20_TranslatorByPath ==
    /\ \A p \in Paths \cup {fastapi_verify_login, fastapi_logout},
          destination \in {fastapi_error, fastapi_login, fastapi_session},
          source \in Paths :
          LET response ==
                  redirect_exception_handler(p, RedirectException(destination, source, ""))
          IN /\ response.dest = destination
             /\ response.media = "JSONResponse" <=> p = fastapi_verify_login
             /\ response.media = "RedirectResponse" <=> p # fastapi_verify_login
             /\ response.status = IF p = fastapi_verify_login THEN 200 ELSE 307
    /\ (last.op = "verify" /\ last.sent \in {"username", "signature"} /\ last.before >= 2)
          => last.status = 200 /\ last.dest = fastapi_error
    /\ (last.op = "request" /\ last.sent # "stored")
          => last.status = 307 /\ last.dest \in {fastapi_login, fastapi_session}

\* both translations have happened: a verification got the JSON body
C20_Witness ==
    /\ last.op = "verify" /\ last.status = 200 /\ last.dest = fastapi_error
    /\ last.before >= 2

\* C16 as claimed: in every state, also between the steps of a login that
\* replaces a route and of a timer that swaps it, and whatever the order of
\* logins and timers, app.routes holds exactly one route for every path the
\* Authenticator protects.
C16_OneRoutePerPath ==
    \A path \in DOMAIN route_map : Registered(routes, path) = 1

\* C21: the response translated from a RedirectException sets the cookie
\* detail exactly when the detail of the exception is not empty, to the detail
\* in upper case; and verify_session allows a connection exactly when its
\* session_token cookie is the token stored for its host, whatever detail
\* cookie the connection carries or lacks.
C21_DetailCookieCarriesNoAuthority ==
    /\ (called.fn = "redirect_exception_handler" /\ called.out # None) =>
          LET detail == called.args.exception.detail
              response == Val(called.out)
          IN /\ response.detail # None <=> detail # ""
             /\ detail = "Session expired" => response.detail = Some("SESSION EXPIRED")
             /\ detail = "denied 3 times" => response.detail = Some("DENIED 3 TIMES")
             /\ detail = "LOCKED OUT" => response.detail = Some("LOCKED OUT")
    /\ (called.fn = "verify_session" /\ called.out # None
        /\ called.args # [api_request |-> None, api_websocket |-> None]) =>
          LET connection == Val(called.args.api_request \cup called.args.api_websocket)
          IN Val(called.out) = NoExc
                <=> /\ connection.host \in DOMAIN client_auth
                    /\ Get(connection.cookies, "session_token")
                          = Some(client_auth[connection.host])

\* a detail with lower case letters has been translated into the cookie
C21_Witness ==
    /\ called.fn = "redirect_exception_handler"
    /\ called.args.exception.detail = "Session expired"
    /\ called.out # None
    /\ Val(called.out).detail = Some("SESSION EXPIRED")

\* C25: verify_session called with neither a Request nor a WebSocket raises
\* an HTTPException with a status of the 400 class, and ws_session.client_auth
\* and ws_session.invalid are as they were.
C25_NoTransportIsBadRequest ==
    [][(/\ called.fn = "verify_session" /\ called.out = None /\ called'.out # None
        /\ called.args = [api_request |-> None, api_websocket |-> None])
       => /\ Val(called'.out).type = "HTTPException"
          /\ Val(called'.out).status_code \in 400..499
          /\ client_auth' = client_auth
          /\ invalid' = invalid]_vars

\* the guard was called with neither while a host has a session
C25_Witness ==
    /\ called.fn = "verify_session"
    /\ called.args = [api_request |-> None, api_websocket |-> None]
    /\ called.out = Some(HTTPException(400,
           "Request or WebSocket connection is required for session check."))
    /\ client_auth # <<>>

\* C26 as claimed: the construction succeeds with the given username and
\* password as the configured credentials when both are given and not empty;
\* a value that is not given is taken from the environment; and the
\* construction fails when a value is then still empty or absent.
C26_ExplicitCredentialsConfigured ==
    (called.fn = "EnvConfig" /\ called.out # None) =>
       LET args == called.args
           env == Val(called.out)
           fallback(given, names) ==
               IF TruthyText(given) THEN given
               ELSE IF \E n \in names : TruthyText(Get(args.environ, n))
               THEN {args.environ[n] : n \in {m \in names : TruthyText(Get(args.environ, m))}}
               ELSE None
           username == fallback(args.username, {"USERNAME", "user"})
           password == fallback(args.password, {"PASSWORD"})
       IN IF username = None \/ password = None
          THEN env.exc # NoExc
          ELSE /\ env.exc = NoExc
               /\ env.username \in username
               /\ env.password \in password

\* C27 as claimed: the response of the login, logout, session and error
\* pages deletes every cookie the request carried, sets Cache-Control to
\* "no-cache, no-store, must-revalidate" and the Authorization header to "".
C27_PagesDeleteEveryCookie ==
    (called.fn = "endpoints" /\ called.out # None) =>
       LET response == Val(called.out) IN
       /\ DOMAIN called.args.request.cookies \subseteq response.deleted
       /\ Get(response.headers, "Cache-Control")
             = Some("no-cache, no-store, must-revalidate")
       /\ Get(response.headers, "Authorization") = Some("")

\* C24: from the same state, a credential with a wrong username and one
\* with the right username and a wrong signature are answered alike (the 401
\* with the same detail, or the same redirect to the error page), count one
\* failure each, and leave ws_session.client_auth as it is.
C24_UsernameAndSignatureAlike ==
    /\ \A host \in Hosts : \A a, b \in Authorizations :
          (Kind(a) = "username" /\ Kind(b) = "signature") =>
             LET x == verify_login(a, host, invalid, client_auth, nextKey)
                 y == verify_login(b, host, invalid, client_auth, nextKey)
             IN /\ x = y
                /\ x.key = None
                /\ x.client_auth = client_auth
                /\ Count(x.invalid, host) = Count(invalid, host) + 1
                /\ x.exc = IF Count(invalid, host) + 1 >= 3
                           THEN RedirectException(fastapi_error, "/", "")
                           ELSE HTTPException(401, "Incorrect username or password")
    /\ (last.op = "verify" /\ last.sent \in {"username", "signature"}) =>
          /\ IF last.before + 1 >= 3 THEN LockedOut(last) ELSE Unauthorized(last)
          /\ Count(invalid, last.host) = last.before + 1
          /\ last.cookie = None

\* a wrong username has been answered with the redirect to the error page
\* while the host has a session
C24_Witness ==
    /\ last.op = "verify" /\ last.sent = "username"
    /\ LockedOut(last)
    /\ last.host \in DOMAIN client_auth

\* C28 as claimed: in every state, for every token in ws_session.client_auth a
\* Timer is pending for its host that was started with that token or a later
\* one.
C28_EveryRecordHasTimer ==
    \A h \in DOMAIN client_auth :
       \E t \in timers : t.host = h /\ t.key[1] >= client_auth[h][1]

\* C29 as claimed: a verification writes a token into ws_session.client_auth
\* exactly when its response is the success body that sets the session_token
\* cookie; a verification answered with an error (401, 417, the redirect to
\* the error page) leaves ws_session.client_auth as it was.
C29_VerificationAllOrNothing ==
    [][last'.op = "verify" =>
          (client_auth' # client_auth <=> (last'.status = 200 /\ last'.cookie # None))]_vars

\* C30: a verification of a host answered with the 401 or with the redirect
\* to the error page leaves ws_session.client_auth, the pending timers and
\* app.routes as they were, and every connection verify_session allowed
\* before it is allowed after it.
C30_FailureSparesSession ==
    [][(last'.op = "verify" /\ (Unauthorized(last') \/ LockedOut(last'))) =>
          /\ client_auth' = client_auth
          /\ timers' = timers
          /\ routes' = routes
          /\ \A h \in Hosts, session \in Sessions :
                verify_session(Some(Connection(h, "/", session)), None, client_auth) = NoExc
                   => verify_session(Some(Connection(h, "/", session)), None,
                                     client_auth') = NoExc]_vars

\* a host with a session and a pending timer has failed a verification
C30_Witness ==
    /\ last.op = "verify" /\ last.sent = "signature"
    /\ Unauthorized(last) \/ LockedOut(last)
    /\ last.host \in DOMAIN client_auth
    /\ \E t \in timers : t.host = last.host /\ <<t.key[1]>> = client_auth[last.host]

\* C22 as claimed: when the failed verifications of a host run at once, then
\* under every interleaving, once none of them is inside failed_auth_counter
\* the count of the host is the number of them; and a verification that
\* itself wrote a count of 3 or more is answered with the redirect to the
\* error page.
C22_NoLostUpdate ==
    /\ \A host \in Hosts :
          Counting(host) = {} => Count(invalid, host) = streak[host]
    /\ (last.op = "check" /\ last.before + 1 >= 3) => LockedOut(last)

\* C23: a request that has passed verify_session is answered by the function
\* of its route, also when the Timer has cleared the session of its host in
\* between; and a request is turned away by verify_session exactly when the
\* cookie it arrives with is not the token stored for its host at that moment.
C23_CheckedOnceAtEntry ==
    [][/\ \A thread \in inflight :
             (thread.op = "request" /\ thread \notin inflight') =>
                /\ last'.op = "serve"
                /\ last'.status = IF thread.path = "/ws" THEN 101 ELSE 200
                /\ last'.dest \in Functions
       /\ last'.op = "enter" =>
             (last'.status = 307 <=> last'.sent # "stored")]_vars

\* a request was answered by its function after the session of its host was
\* cleared by a Timer
C23_Witness ==
    /\ last.op = "serve" /\ last.status = 200 /\ last.dest \in Functions
    /\ last.sent = "other"
    /\ client_auth = <<>>
    /\ fired # {}

\* C31: a request to a protected path, whether verify_session lets it
\* through or turns it away, leaves ws_session.client_auth, ws_session.invalid
\* and the pending timers as they were: a request turned away is not counted
\* as a failed attempt.
C31_GuardReadsOnly ==
    [][last'.op = "request" =>
          /\ client_auth' = client_auth
          /\ invalid' = invalid
          /\ timers' = timers]_vars

\* a request was turned away while a host is one failure short of the
\* redirect to the error page, and a session and a timer exist
C31_Witness ==
    /\ last.op = "request" /\ last.status = 307
    /\ \E h \in DOMAIN invalid : invalid[h] = 2
    /\ client_auth # <<>>
    /\ timers # {}

\* C32 as claimed: when the hosts a and b both have a session and only the
\* Timer of a has fired, the path b logged in for is still bound to its
\* function, so that the next request of b with its token reaches it.
C32_ExpirySparesOtherHosts ==
    \A a, b \in Hosts : \A t \in timers :
       (/\ a # b /\ inflight = {}
        /\ a \in DOMAIN client_auth /\ fired = {client_auth[a]}
        /\ t.host = b /\ Get(client_auth, b) = Some(t.key))
       => /\ Registered(routes, t.route.path) >= 1
          /\ Match(routes, t.route.path).endpoint = t.route.endpoint

\* C33 as claimed: clear_session never fails, whatever the Timers of a host
\* and their interleaving: no Timer thread ends in an exception.
C33_TeardownNeverFails ==
    last.op = "timer" => last.status # 500

\* C34: whether verify_login accepts depends on the credential and on the
\* configured username and password alone: in every state, whatever the
\* failure counters, the stored sessions and the number of earlier logins,
\* every host is accepted exactly with a credential of the configured
\* username signed with the configured password (for any timestamp it was
\* signed with), and each acceptance stores a token never given before.
C34_AcceptanceByCredentialAlone ==
    \A host \in Hosts :
       /\ \A authorization \in Authorizations :
             LET login == verify_login(authorization, host, invalid, client_auth,
                                       nextKey)
             IN /\ login.exc = NoExc <=> Kind(authorization) = "valid"
                /\ login.exc = NoExc =>
                      /\ login.key # None
                      /\ Val(login.key) \notin fired
                      /\ \A h \in DOMAIN client_auth : client_auth[h] # Val(login.key)
                      /\ Get(login.client_auth, host) = login.key
       /\ \A t \in 1..3 :
             verify_login(Some([b64 |-> TRUE, hex |-> TRUE,
                                text |-> Triple("admin", sign("admin", "hunter2", t), t)]),
                          host, invalid, client_auth, nextKey).exc = NoExc

\* the credential was accepted a second time, from another host than the
\* first time, and from a host that had been denied three times
C34_Witness ==
    /\ last.op = "verify" /\ last.sent = "valid" /\ last.status = 200
    /\ last.before >= 3
    /\ nextKey = 2
    /\ DOMAIN client_auth = Hosts
    /\ \A a, b \in Hosts : a # b => client_auth[a] # client_auth[b]

\* C35: get_env returns the first non-empty value it finds looking up, key
\* by key in the order of the list, the key as given, then in upper case,
\* then in lower case (so that an earlier key wins over a later one), and the
\* default when none of these names has a non-empty value.
C35_FirstNonEmptyInOrder ==
    (called.fn = "get_env" /\ called.out # None) =>
       LET args == called.args
           names == [i \in 1..(3 * Len(args.keys)) |->
                        LET key == args.keys[((i - 1) \div 3) + 1] IN
                        CASE (i - 1) % 3 = 0 -> key
                          [] (i - 1) % 3 = 1 -> upper(key)
                          [] (i - 1) % 3 = 2 -> lower(key)]
           set == {i \in DOMAIN names : TruthyText(Get(args.environ, names[i]))}
       IN Val(called.out) =
             IF set = {} THEN args.default
             ELSE LET first == CHOOSE i \in set : \A j \in set : i <= j
                  IN Some(args.environ[names[first]])

\* the first key is empty as given and set in upper case, and the second key
\* is set as well: the upper case of the first key was returned
C35_Witness ==
    /\ called.fn = "get_env" /\ called.out = Some(Some("in upper case"))
    /\ called.args.keys = <<"Username", "Password">>
    /\ Get(called.args.environ, "Username") = Some("")
    /\ Get(called.args.environ, "username") = Some("in lower case")
    /\ Get(called.args.environ, "PASSWORD") = Some("second key")

====
